---------------------------- MODULE Spec2Model ----------------------------
(***************************************************************************)
(* Model of src/cc.py: the biomedical record pipeline (Validador,          *)
(* GeneradorDatos, Ordenador, GestorArchivos, GestorMongoDB and the menu   *)
(* handlers of SistemaBiomedico).                                          *)
(*                                                                         *)
(* A Python str is a sequence of characters; a character is a one-token    *)
(* string.  "LF" is the newline character, "AR3" is U+0663 (ARABIC-INDIC   *)
(* DIGIT THREE, a decimal digit for re's \d and for int(), two bytes in    *)
(* UTF-8), "ñ" is two bytes in UTF-8.                                      *)
(***************************************************************************)
EXTENDS Integers, Sequences, FiniteSets, TLC

VARIABLES
    estado,      \* position of the process: "menu", "salido", "error"
    registros,   \* SistemaBiomedico.registros
    archivos,    \* files under base_dir: path -> content, or Ausente
    guardado,    \* history: nombre -> record sequence last written by guardar_json
    mongodb,     \* SistemaBiomedico.mongodb: None or a GestorMongoDB handle
    coleccion,   \* documents of the collection signos_vitales
    arg,         \* the argument of the functions called on their own
    ret          \* what the last operation returned, printed and called

vars == <<estado, registros, archivos, guardado, mongodb, coleccion, arg, ret>>

-----------------------------------------------------------------------------
(* Characters and strings *)

AsciiDigits == {"0", "1", "2", "3", "4", "5", "6", "7", "8", "9"}

\* re's \d on a str pattern, and the digits int() accepts: Unicode decimal digits
IsDigit(c) == c \in AsciiDigits \cup {"AR3"}

DigitValue(c) ==
    CASE c = "0" -> 0 [] c = "1" -> 1 [] c = "2" -> 2 [] c = "3" -> 3
      [] c = "4" -> 4 [] c = "5" -> 5 [] c = "6" -> 6 [] c = "7" -> 7
      [] c = "8" -> 8 [] c = "9" -> 9 [] c = "AR3" -> 3

\* re's \s, and the whitespace int() strips
IsSpace(c) == c \in {" ", "LF"}

\* bytes of a character in UTF-8
ByteLen(c) == IF c \in {"AR3", "ñ"} THEN 2 ELSE 1

ID_ == <<"I", "D", "-">>
ANOS == <<"A", "ñ", "o", "s">>
PPM == <<"p", "p", "m">>
PCT == <<"%">>

\* s[from..] starts with lit
StartsAt(s, from, lit) ==
    /\ from + Len(lit) - 1 <= Len(s)
    /\ \A i \in 1..Len(lit) : s[from + i - 1] = lit[i]

AllDigits(s, from, to) == \A i \in from..to : IsDigit(s[i])

AllSpaces(s, from, to) == \A i \in from..to : IsSpace(s[i])

\* re's $ without MULTILINE, p the next position to match: the end of the
\* string, or just before a newline that ends the string
Dollar(s, p) == p = Len(s) + 1 \/ (p = Len(s) /\ s[p] = "LF")

-----------------------------------------------------------------------------
(* Validador *)

\* ^ID-\d{3}$
validar_id(s) ==
    /\ StartsAt(s, 1, ID_)
    /\ Len(s) >= 6
    /\ AllDigits(s, 4, 6)
    /\ Dollar(s, 7)

\* ^\d{1,3}\s*Años$
validar_fr(s) ==
    \E k \in 1..3 : \E j \in 0..Len(s) :
        /\ k + j <= Len(s)
        /\ AllDigits(s, 1, k)
        /\ AllSpaces(s, k + 1, k + j)
        /\ StartsAt(s, k + j + 1, ANOS)
        /\ Dollar(s, k + j + 5)

\* ^\d{2,3}ppm$
validar_fc(s) ==
    \E k \in 2..3 :
        /\ k <= Len(s)
        /\ AllDigits(s, 1, k)
        /\ StartsAt(s, k + 1, PPM)
        /\ Dollar(s, k + 4)

\* ^\d{2,3}%$
validar_spo2(s) ==
    \E k \in 2..3 :
        /\ k <= Len(s)
        /\ AllDigits(s, 1, k)
        /\ StartsAt(s, k + 1, PCT)
        /\ Dollar(s, k + 2)

validar_registro(r) ==
    /\ validar_id(r.id)
    /\ validar_fr(r.fr)
    /\ validar_fc(r.fc)
    /\ validar_spo2(r.spo2)


-----------------------------------------------------------------------------
(* Number formatting and parsing *)

DigitChar(d) ==
    CASE d = 0 -> "0" [] d = 1 -> "1" [] d = 2 -> "2" [] d = 3 -> "3"
      [] d = 4 -> "4" [] d = 5 -> "5" [] d = 6 -> "6" [] d = 7 -> "7"
      [] d = 8 -> "8" [] d = 9 -> "9"

RECURSIVE Decimal(_)
\* f"{n}" of a non-negative int
Decimal(n) ==
    IF n < 10 THEN <<DigitChar(n)>>
    ELSE Append(Decimal(n \div 10), DigitChar(n % 10))

RECURSIVE PadLeft(_, _)
PadLeft(s, width) == IF Len(s) >= width THEN s ELSE PadLeft(<<"0">> \o s, width)

\* f"{n:03d}": zero-padded to at least 3 characters, never cut
Format03d(n) == PadLeft(Decimal(n), 3)

RECURSIVE DigitsValue(_, _, _, _)
\* the value of the digits s[from..to] read after acc
DigitsValue(s, from, to, acc) ==
    IF from > to THEN acc
    ELSE DigitsValue(s, from + 1, to, 10 * acc + DigitValue(s[from]))

RECURSIVE LStrip(_)
LStrip(s) == IF Len(s) > 0 /\ IsSpace(s[1]) THEN LStrip(Tail(s)) ELSE s

RECURSIVE RStrip(_)
RStrip(s) ==
    IF Len(s) > 0 /\ IsSpace(s[Len(s)]) THEN RStrip(SubSeq(s, 1, Len(s) - 1)) ELSE s

\* int(s): whitespace stripped at both ends, an optional sign, then digits
\* only; anything else is a ValueError
int(s) ==
    LET t == RStrip(LStrip(s))
        neg == Len(t) > 0 /\ t[1] = "-"
        from == IF neg THEN 2 ELSE 1
    IN  IF from <= Len(t) /\ AllDigits(t, from, Len(t))
        THEN [ok |-> TRUE,
              val |-> IF neg THEN 0 - DigitsValue(t, from, Len(t), 0)
                             ELSE DigitsValue(t, from, Len(t), 0)]
        ELSE [ok |-> FALSE, err |-> "ValueError"]

\* str.isdigit(): not empty, every character a digit
isdigit(s) == Len(s) > 0 /\ AllDigits(s, 1, Len(s))

RECURSIVE replace_ppm(_)
\* s.replace('ppm', ''): every occurrence found left to right, in one pass
replace_ppm(s) ==
    IF Len(s) = 0 THEN s
    ELSE IF StartsAt(s, 1, PPM) THEN replace_ppm(SubSeq(s, 4, Len(s)))
    ELSE <<s[1]>> \o replace_ppm(Tail(s))

-----------------------------------------------------------------------------
(* GeneradorDatos *)

RegistroBiomedico(id, fr, fc, spo2) == [id |-> id, fr |-> fr, fc |-> fc, spo2 |-> spo2]

\* the three random.randint ranges
EdadMin == 18
EdadMax == 90
FcMin == 60
FcMax == 120
Spo2Min == 85
Spo2Max == 100

\* one record's three draws: [edad, fc, spo2]
generar_registro(id_num, azar) ==
    RegistroBiomedico(ID_ \o Format03d(id_num),
                      Decimal(azar.edad) \o <<" ">> \o ANOS,
                      Format03d(azar.fc) \o PPM,
                      Decimal(azar.spo2) \o PCT)

\* sorteo is the stream of draws: record i takes its draws from sorteo,
\* which repeats after Len(sorteo) records
generar_registros(cantidad, sorteo) ==
    [i \in 1..cantidad |-> generar_registro(i, sorteo[((i - 1) % Len(sorteo)) + 1])]

-----------------------------------------------------------------------------
(* Ordenador *)

extraer_valor_fc(registro) == int(replace_ppm(registro.fc))

\* a ranking that puts the later of two equal keys first, as an unstable
\* sort may
Puesto_inestable(claves, i) ==
    Cardinality({ j \in 1..Len(claves) :
                    claves[j] < claves[i] \/ (claves[j] = claves[i] /\ j > i) }) + 1

\* the place of regs[i] in the stable ascending order of the keys: after
\* every element with a smaller key, and after the earlier elements with
\* the same key
Puesto(claves, i) ==
    Cardinality({ j \in 1..Len(claves) :
                    claves[j] < claves[i] \/ (claves[j] = claves[i] /\ j < i) }) + 1

SortedStable(regs) ==
    LET n == Len(regs)
        claves == SubSeq([i \in 1..n |-> extraer_valor_fc(regs[i]).val], 1, n)
        puesto == SubSeq([i \in 1..n |-> Puesto(claves, i)], 1, n)
    IN  [p \in 1..n |-> regs[CHOOSE i \in 1..n : puesto[i] = p]]

\* sorted(registros, key=extraer_valor_fc): every key is computed first, and a
\* key that raises ends the call; the sort is stable and builds a new list
ordenar_por_fc(regs) ==
    IF \E i \in 1..Len(regs) : ~extraer_valor_fc(regs[i]).ok
    THEN [ok |-> FALSE, err |-> "ValueError"]
    ELSE [ok |-> TRUE, val |-> SortedStable(regs)]
-----------------------------------------------------------------------------
(* JSON text, as json.dump writes it and json.load reads it *)

\* A JSON value is tagged: "str" (v a string), "num" (v a rational
\* [num, den]), "arr" (v a sequence of values), "obj" (v a sequence of
\* members [k, v], in the order written), and "cortado": the place where
\* the writer stopped.  A BSON ObjectId is the value [t |-> "oid", v |-> n].
JStr(s) == [t |-> "str", v |-> s]
JNum(num, den) == [t |-> "num", v |-> [num |-> num, den |-> den]]
JArr(vs) == [t |-> "arr", v |-> vs]
JObj(ms) == [t |-> "obj", v |-> ms]
Cortado == [t |-> "cortado"]
ObjectId(n) == [t |-> "oid", v |-> n]

Campos == <<"id", "fr", "fc", "spo2">>

\* a serialisation that writes the heart rate under both measurement keys
asdict_cruzado(reg) ==
    [i \in 1..4 |-> [k |-> Campos[i],
                     v |-> JStr(IF Campos[i] = "spo2" THEN reg.fc ELSE reg[Campos[i]])]]

\* asdict(reg): the fields in declaration order
asdict(reg) == [i \in 1..4 |-> [k |-> Campos[i], v |-> JStr(reg[Campos[i]])]]

\* whether json's encoder can write a document: it has no encoding for ObjectId
Serializable(doc) == \A i \in 1..Len(doc) : doc[i].v.t # "oid"

\* the members of doc written before the encoder raises at the first
\* ObjectId: the key is written, its value is not
MiembrosEscritos(doc) ==
    LET malo == CHOOSE i \in 1..Len(doc) :
                    /\ doc[i].v.t = "oid"
                    /\ \A j \in 1..(i - 1) : doc[j].v.t # "oid"
    IN  [i \in 1..malo |-> IF i = malo THEN [k |-> doc[i].k, v |-> Cortado] ELSE doc[i]]

\* json.dump of a list of documents: [ok, json]; the text stops inside the
\* first document that cannot be written
dump_lista(docs) ==
    IF \A i \in 1..Len(docs) : Serializable(docs[i])
    THEN [ok |-> TRUE, json |-> JArr([i \in 1..Len(docs) |-> JObj(docs[i])])]
    ELSE LET malo == CHOOSE i \in 1..Len(docs) :
                         /\ ~Serializable(docs[i])
                         /\ \A j \in 1..(i - 1) : Serializable(docs[j])
         IN  [ok |-> FALSE,
              json |-> JArr([i \in 1..malo |->
                              IF i = malo THEN JObj(MiembrosEscritos(docs[i]))
                              ELSE JObj(docs[i])])]

\* json.load of a complete array of objects: a list of dicts, each a function
\* from its keys to its values (the last member of a key wins)
load_lista(json) ==
    [i \in 1..Len(json.v) |->
        LET ms == json.v[i].v
        IN  [k \in {ms[j].k : j \in 1..Len(ms)} |->
                ms[CHOOSE j \in 1..Len(ms) :
                       /\ ms[j].k = k
                       /\ \A j2 \in (j + 1)..Len(ms) : ms[j2].k # k].v.v]]

-----------------------------------------------------------------------------
(* GestorArchivos *)

Ausente == [existe |-> FALSE]

Ruta(carpeta, nombre) == <<carpeta, nombre>>

\* one line of the TXT file
LineaTxt(reg) ==
    reg.id \o <<",", " ">> \o reg.fr \o <<",", " ">> \o reg.fc \o <<",", " ">> \o reg.spo2
        \o <<"LF">>

\* csv.writer quotes a field that holds the delimiter or a line break
CampoCsv(s) ==
    IF \E i \in 1..Len(s) : s[i] \in {",", "LF"}
    THEN <<"QUOTE">> \o s \o <<"QUOTE">>
    ELSE s

EncabezadoCsv == <<"ID", "Edad", "Frecuencia Cardiaca", "SpO2">>

\* the three writers; abre is whether open(ruta, 'w') succeeds, and a
\* failure is logged and leaves the files as they were
guardar_txt(fs, regs, nombre, abre) ==
    IF ~abre THEN fs
    ELSE [fs EXCEPT ![Ruta("txt", nombre)] =
            [existe |-> TRUE, lineas |-> [i \in 1..Len(regs) |-> LineaTxt(regs[i])]]]

guardar_csv(fs, regs, nombre, abre) ==
    IF ~abre THEN fs
    ELSE [fs EXCEPT ![Ruta("csv", nombre)] =
            [existe |-> TRUE, encabezado |-> EncabezadoCsv,
             filas |-> [i \in 1..Len(regs) |->
                          <<CampoCsv(regs[i].id), CampoCsv(regs[i].fr),
                            CampoCsv(regs[i].fc), CampoCsv(regs[i].spo2)>>]]]

guardar_json(fs, regs, nombre, abre) ==
    IF ~abre THEN fs
    ELSE LET d == dump_lista([i \in 1..Len(regs) |-> asdict(regs[i])])
         IN  [fs EXCEPT ![Ruta("json", nombre)] =
                [existe |-> TRUE, completo |-> d.ok, json |-> d.json]]

\* cargar_json: the parsed content, or [] when the file cannot be opened or
\* its text is not a complete JSON document
cargar_json(fs, nombre) ==
    IF Ruta("json", nombre) \notin DOMAIN fs THEN <<>>
    ELSE LET f == fs[Ruta("json", nombre)]
         IN  IF ~f.existe THEN <<>>
             ELSE IF ~f.completo THEN <<>>
             ELSE load_lista(f.json)

-----------------------------------------------------------------------------
(* GestorMongoDB *)

\* $strLenBytes
strLenBytes(s) == IF Len(s) = 0 THEN 0
                  ELSE LET b[i \in 0..Len(s)] == IF i = 0 THEN 0 ELSE b[i - 1] + ByteLen(s[i])
                       IN  b[Len(s)]

\* $substrBytes from byte 0: the whole string when the count is negative,
\* an error when the count ends inside a character
substrBytes0(s, n) ==
    IF n < 0 \/ n >= strLenBytes(s) THEN [ok |-> TRUE, val |-> s]
    ELSE IF \E k \in 0..Len(s) : strLenBytes(SubSeq(s, 1, k)) = n
         THEN [ok |-> TRUE,
               val |-> SubSeq(s, 1, CHOOSE k \in 0..Len(s) : strLenBytes(SubSeq(s, 1, k)) = n)]
         ELSE [ok |-> FALSE, err |-> "OperationFailure"]

\* $toInt of a string: an optional sign and ASCII digits, nothing else
toInt(s) ==
    LET neg == Len(s) > 0 /\ s[1] = "-"
        from == IF neg THEN 2 ELSE 1
    IN  IF from <= Len(s) /\ \A i \in from..Len(s) : s[i] \in AsciiDigits
        THEN [ok |-> TRUE,
              val |-> IF neg THEN 0 - DigitsValue(s, from, Len(s), 0)
                             ELSE DigitsValue(s, from, Len(s), 0)]
        ELSE [ok |-> FALSE, err |-> "OperationFailure"]

\* the value of a field of a stored document
Campo(doc, k) == doc[CHOOSE i \in 1..Len(doc) : doc[i].k = k].v.v

\* the $addFields stage of either pipeline: the field without its last
\* `sufijo` bytes, converted
ValorSinSufijo(doc, k, sufijo) ==
    LET s == Campo(doc, k)
        sub == substrBytes0(s, strLenBytes(s) - sufijo)
    IN  IF sub.ok THEN toInt(sub.val) ELSE sub

fc_valor(doc) == ValorSinSufijo(doc, "fc", 3)

spo2_valor(doc) == ValorSinSufijo(doc, "spo2", 1)

RECURSIVE Suma(_, _)
Suma(f, n) == IF n = 0 THEN 0 ELSE f[n] + Suma(f, n - 1)

\* insert_many on the server: each document is stored with a fresh _id first
insert_many(col, dicts) ==
    col \o [i \in 1..Len(dicts) |->
              <<[k |-> "_id", v |-> ObjectId(Len(col) + i)]>> \o dicts[i]]

\* insertar_registros: one insert_many unless the list is empty; disponible
\* is whether the server answers, and a failure is logged.
\* [col: the collection after, llamadas: the calls made to the store]
insertar_registros(col, dicts, disponible) ==
    IF Len(dicts) = 0 THEN [col |-> col, llamadas |-> <<>>]
    ELSE [col |-> IF disponible THEN insert_many(col, dicts) ELSE col,
          llamadas |-> <<"insert_many">>]

\* consultar_promedio_fc: $avg as a rational, 0 over nothing or on a failure
consultar_promedio_fc(col, disponible) ==
    IF ~disponible THEN [num |-> 0, den |-> 1]
    ELSE IF \E i \in 1..Len(col) : ~fc_valor(col[i]).ok THEN [num |-> 0, den |-> 1]
    ELSE IF Len(col) = 0 THEN [num |-> 0, den |-> 1]
    ELSE [num |-> Suma([i \in 1..Len(col) |-> fc_valor(col[i]).val], Len(col)),
          den |-> Len(col)]

EsMenor(doc, limite) == spo2_valor(doc).val < limite

\* consultar_spo2_bajo: the matching documents as stored ($project removes
\* only spo2_valor, so _id stays), [] on a failure
consultar_spo2_bajo(col, limite, disponible) ==
    IF ~disponible THEN <<>>
    ELSE IF \E i \in 1..Len(col) : ~spo2_valor(col[i]).ok THEN <<>>
    ELSE LET Bajo(doc) == EsMenor(doc, limite)
         IN  SelectSeq(col, Bajo)

LimitePorDefecto == 94

RutaConsultas == Ruta("json", "resultados.mongo")

\* exportar_consultas_json: both queries run again, then json.dump writes
\* promedio_fc and spo2_bajo_94 in this order into the opened (truncated)
\* file; an exception, of open (abre is false) or of the encoder, ends the
\* writing and is logged
exportar_consultas_json(fs, col, disponible, abre) ==
    LET promedio == consultar_promedio_fc(col, disponible)
        bajos == consultar_spo2_bajo(col, LimitePorDefecto, disponible)
        d == dump_lista(bajos)
    IN  IF ~abre THEN fs
        ELSE [fs EXCEPT ![RutaConsultas] =
                [existe |-> TRUE, completo |-> d.ok,
                 json |-> JObj(<<[k |-> "promedio_fc",
                                  v |-> JNum(promedio.num, promedio.den)],
                                 [k |-> "spo2_bajo_94", v |-> d.json]>>)]]

-----------------------------------------------------------------------------
(* Inputs explored *)

\* longest record sequence handed to an operation
MaxLen == 3
\* largest count typed at the prompt of generar_datos
MaxCantidad == 1
\* largest count handed to generar_registros directly
MaxCantidadGen == 1000
\* most documents the collection is let grow to at the menu
MaxDocs == 1
\* most documents the collection is let grow to when the store is called
\* on its own
MaxColeccion == 3
\* longest period of a stream of random draws
MaxPeriodo == 2

\* the strings the field validators are tried on:
\* [junk] [ID-] digits [space] [unit] [junk]
DigitosPool ==
    { <<>>, <<"5">>, <<"1", "2">>, <<"6", "0">>, <<"9", "9">>, <<"0", "0", "0">>,
      <<"1", "0", "1">>, <<"1", "5", "0">>, <<"9", "9", "9">>, <<"1", "0", "0", "0">>,
      <<"AR3", "AR3", "AR3">> }

Cadenas ==
    { pre \o cab \o dig \o esp \o uni \o post :
        pre \in {<<>>, <<" ">>, <<"x">>},
        cab \in {<<>>, ID_},
        dig \in DigitosPool,
        esp \in {<<>>, <<" ">>, <<"LF">>},
        uni \in {<<>>, ANOS, <<"a", "ñ", "o", "s">>, PPM, <<"P", "P", "M">>, PCT},
        post \in {<<>>, <<"LF">>, <<"e", "x", "t", "r", "a">>} }

\* a well-formed record, and the same record with one field replaced
Canonico == RegistroBiomedico(ID_ \o Format03d(7), Decimal(18) \o <<" ">> \o ANOS,
                              Format03d(60) \o PPM, Decimal(90) \o PCT)

Malo == RegistroBiomedico(ID_ \o Decimal(12), Decimal(150) \o <<" ", "a", "ñ", "o", "s">>,
                          Decimal(99) \o <<"P", "P", "M">>,
                          Decimal(101) \o PCT \o <<"e", "x", "t", "r", "a">>)

PoolVal ==
    { [Canonico EXCEPT !.id = s] : s \in Cadenas }
      \cup { [Canonico EXCEPT !.fr = s] : s \in Cadenas }
      \cup { [Canonico EXCEPT !.fc = s] : s \in Cadenas }
      \cup { [Canonico EXCEPT !.spo2 = s] : s \in Cadenas }
      \cup { RegistroBiomedico(a.id, b.fr, c.fc, d.spo2) :
               a \in {Canonico, Malo}, b \in {Canonico, Malo},
               c \in {Canonico, Malo}, d \in {Canonico, Malo} }

\* the draws of one record, at the ends of the three ranges
Azar == [edad : {EdadMin, EdadMax}, fc : {FcMin, FcMax}, spo2 : {Spo2Min, Spo2Max}]

\* the streams tried at the menu: every draw at the low end, or every draw
\* at the high end
SorteosMenu ==
    { <<[edad |-> EdadMin, fc |-> FcMin, spo2 |-> Spo2Min]>>,
      <<[edad |-> EdadMax, fc |-> FcMax, spo2 |-> Spo2Max]>> }

Sorteos == UNION { [1..n -> Azar] : n \in 1..MaxPeriodo }

\* the counts generar_registros is tried on: the small ones, the default, and
\* both sides of every hundred up to MaxCantidadGen
CantidadesGen ==
    { n \in 0..MaxCantidadGen :
        n <= 2 \/ n = 50 \/ n % 100 = 0 \/ n % 100 = 99 }

\* records held or passed around: well-formed ones (two with the same heart
\* rate written differently), and malformed ones
R1 == RegistroBiomedico(ID_ \o Format03d(1), Decimal(18) \o <<" ">> \o ANOS,
                        Decimal(60) \o PPM, Decimal(90) \o PCT)
R2 == RegistroBiomedico(ID_ \o Format03d(2), Decimal(90) \o <<" ">> \o ANOS,
                        Format03d(60) \o PPM, Decimal(94) \o PCT)
R3 == RegistroBiomedico(ID_ \o Format03d(3), Decimal(45) \o <<" ">> \o ANOS,
                        Decimal(120) \o PPM, Decimal(100) \o PCT)
R4 == RegistroBiomedico(ID_ \o Format03d(4), Decimal(30) \o <<" ">> \o ANOS,
                        Decimal(80), Decimal(95) \o PCT)
R5 == [Malo EXCEPT !.id = ID_ \o Format03d(5)]
R6 == RegistroBiomedico(ID_ \o Format03d(6), Decimal(5) \o ANOS,
                        Decimal(80) \o PPM, Decimal(90) \o <<"x">>)

PoolReg == {R1, R2, R3, R4, R5, R6}

\* ten records, three of them with a corrupted field
Ejemplo10 ==
    [i \in 1..10 |->
        LET r == generar_registro(i, [edad |-> 17 + i, fc |-> 59 + 6 * i, spo2 |-> 84 + i])
        IN  CASE i = 2 -> [r EXCEPT !.id = ID_ \o Decimal(12)]
              [] i = 5 -> [r EXCEPT !.fc = Decimal(99) \o <<"P", "P", "M">>]
              [] i = 9 -> [r EXCEPT !.spo2 = Decimal(101) \o PCT \o <<"e", "x", "t", "r", "a">>]
              [] OTHER -> r]

SeqsReg == UNION { [1..n -> PoolReg] : n \in 0..MaxLen } \cup {Ejemplo10}

-----------------------------------------------------------------------------
(* The state after construction *)

None == "None"
Nada == [hay |-> FALSE]

\* base names of the files the session reads and writes
NombrePorDefecto == "registros_biomedicos"
Nombres == {NombrePorDefecto, "externo", "vacio"}

Rutas == ({"txt", "csv", "json"} \X Nombres) \cup {RutaConsultas}

\* files found at start: externo.json and vacio.json were written by
\* another program
ExternoInicial == <<R2, R5, R1>>

ArchivosIniciales ==
    guardar_json(guardar_json([r \in Rutas |-> Ausente], ExternoInicial, "externo", TRUE),
                 <<>>, "vacio", TRUE)

sys == <<estado, registros, archivos, guardado, mongodb, coleccion>>

InitSys ==
    /\ estado = "menu"
    /\ registros = <<>>
    /\ archivos = ArchivosIniciales
    /\ guardado = [n \in Nombres |-> Nada]
    /\ mongodb = None
    /\ coleccion = <<>>

-----------------------------------------------------------------------------
(* Validador, called on its own *)

InitVal ==
    /\ InitSys
    /\ arg \in {[registro |-> r] : r \in PoolVal}
    /\ ret = [op |-> "inicio"]

Call_validar_id ==
    /\ ret' = [op |-> "validar_id", valor |-> validar_id(arg.registro.id)]
    /\ UNCHANGED <<sys, arg>>

Call_validar_fr ==
    /\ ret' = [op |-> "validar_fr", valor |-> validar_fr(arg.registro.fr)]
    /\ UNCHANGED <<sys, arg>>

Call_validar_fc ==
    /\ ret' = [op |-> "validar_fc", valor |-> validar_fc(arg.registro.fc)]
    /\ UNCHANGED <<sys, arg>>

Call_validar_spo2 ==
    /\ ret' = [op |-> "validar_spo2", valor |-> validar_spo2(arg.registro.spo2)]
    /\ UNCHANGED <<sys, arg>>

Call_validar_registro ==
    /\ ret' = [op |-> "validar_registro", valor |-> validar_registro(arg.registro)]
    /\ UNCHANGED <<sys, arg>>

NextVal ==
    \/ Call_validar_id
    \/ Call_validar_fr
    \/ Call_validar_fc
    \/ Call_validar_spo2
    \/ Call_validar_registro

SpecVal == InitVal /\ [][NextVal]_vars

-----------------------------------------------------------------------------
(* GeneradorDatos, called on its own *)

CantidadPorDefecto == 50

\* the count read at the prompt of generar_datos: the stripped input when
\* it is all digits, the default otherwise
leer_cantidad(entrada) ==
    LET texto == RStrip(LStrip(entrada))
    IN  IF isdigit(texto) THEN int(texto).val ELSE CantidadPorDefecto

\* the count is typed as generar_datos reads it: digits, or nothing
InitGen ==
    /\ InitSys
    /\ arg \in {[entrada |-> e, sorteo |-> s] :
                  e \in {<<>>} \cup {Decimal(n) : n \in CantidadesGen}, s \in Sorteos}
    /\ ret = [op |-> "inicio"]

Call_generar_registros ==
    /\ LET cantidad == leer_cantidad(arg.entrada)
       IN  ret' = [op |-> "generar_registros", cantidad |-> cantidad,
                   valor |-> generar_registros(cantidad, arg.sorteo)]
    /\ UNCHANGED <<sys, arg>>

NextGen == Call_generar_registros

SpecGen == InitGen /\ [][NextGen]_vars
-----------------------------------------------------------------------------
(* SistemaBiomedico: the handlers of the menu *)

LimiteMostrar == 10

\* what is typed at "Cantidad de registros a generar": a count
EntradasCantidad == {Decimal(n) : n \in 0..MaxCantidad}

\* what is typed at "Nombre base para archivos": nothing, or a name
EntradasExportar == {"", NombrePorDefecto}

\* what is typed at "Nombre del archivo JSON": "ausente" names no file
EntradasImportar == Nombres \cup {"ausente"}

generar_datos ==
    /\ estado = "menu"
    /\ \E entrada \in EntradasCantidad, sorteo \in SorteosMenu :
          LET cantidad == leer_cantidad(entrada)
          IN  /\ registros' = generar_registros(cantidad, sorteo)
              /\ ret' = [op |-> "generar_datos", generados |-> cantidad]
    /\ UNCHANGED <<estado, archivos, guardado, mongodb, coleccion, arg>>

\* a validation that counts but keeps every record
validar_datos_sin_quitar ==
    /\ estado = "menu"
    /\ IF Len(registros) = 0
       THEN ret' = [op |-> "validar_datos", msg |-> "No hay registros para validar"]
       ELSE LET validos == SelectSeq(registros, validar_registro)
            IN  ret' = [op |-> "validar_datos", validos |-> Len(validos),
                        invalidos |-> Len(registros) - Len(validos)]
    /\ UNCHANGED <<sys, arg>>

validar_datos ==
    /\ estado = "menu"
    /\ IF Len(registros) = 0
       THEN /\ ret' = [op |-> "validar_datos", msg |-> "No hay registros para validar"]
            /\ UNCHANGED registros
       ELSE LET validos == SelectSeq(registros, validar_registro)
                invalidos == Len(registros) - Len(validos)
            IN  /\ ret' = [op |-> "validar_datos", validos |-> Len(validos),
                           invalidos |-> invalidos]
                /\ registros' = IF invalidos > 0 THEN validos ELSE registros
    /\ UNCHANGED <<estado, archivos, guardado, mongodb, coleccion, arg>>

\* a ValueError of the key function leaves ordenar_datos and menu_principal
\* and ends the program in the handler of __main__
ordenar_datos ==
    /\ estado = "menu"
    /\ IF Len(registros) = 0
       THEN /\ ret' = [op |-> "ordenar_datos", msg |-> "No hay registros para ordenar"]
            /\ UNCHANGED <<estado, registros>>
       ELSE LET o == ordenar_por_fc(registros)
            IN  IF o.ok
                THEN /\ registros' = o.val
                     /\ ret' = [op |-> "ordenar_datos", msg |-> "Registros ordenados"]
                     /\ UNCHANGED estado
                ELSE /\ estado' = "error"
                     /\ ret' = [op |-> "ordenar_datos", excepcion |-> o.err]
                     /\ UNCHANGED registros
    /\ UNCHANGED <<archivos, guardado, mongodb, coleccion, arg>>

\* history of guardar_json: the record sequence a successful call wrote
anotar(g, regs, nombre, abre) ==
    IF abre THEN [g EXCEPT ![nombre] = [hay |-> TRUE, regs |-> regs]] ELSE g

\* abre: whether the data directory can be written during this export
exportar_datos ==
    /\ estado = "menu"
    /\ IF Len(registros) = 0
       THEN /\ ret' = [op |-> "exportar_datos", msg |-> "No hay registros para exportar"]
            /\ UNCHANGED <<archivos, guardado>>
       ELSE \E entrada \in EntradasExportar, abre \in BOOLEAN :
              LET nombre == IF entrada = "" THEN NombrePorDefecto ELSE entrada
              IN  /\ archivos' = guardar_json(
                                    guardar_csv(
                                      guardar_txt(archivos, registros, nombre, abre),
                                      registros, nombre, abre),
                                    registros, nombre, abre)
                  /\ guardado' = anotar(guardado, registros, nombre, abre)
                  /\ ret' = [op |-> "exportar_datos", msg |-> "Datos exportados"]
    /\ UNCHANGED <<estado, registros, mongodb, coleccion, arg>>

\* RegistroBiomedico(**item) raises TypeError unless the keys of item are
\* the four fields
importar_datos ==
    /\ estado = "menu"
    /\ \E nombre \in EntradasImportar :
          LET datos_json == cargar_json(archivos, nombre)
          IN  IF Len(datos_json) > 0
                 THEN IF \A i \in 1..Len(datos_json) :
                            DOMAIN datos_json[i] = {"id", "fr", "fc", "spo2"}
                      THEN /\ registros' =
                                [i \in 1..Len(datos_json) |->
                                    RegistroBiomedico(datos_json[i]["id"], datos_json[i]["fr"],
                                                      datos_json[i]["fc"], datos_json[i]["spo2"])]
                           /\ ret' = [op |-> "importar_datos", nombre |-> nombre,
                                      importados |-> Len(datos_json)]
                           /\ UNCHANGED estado
                      ELSE /\ estado' = "error"
                           /\ ret' = [op |-> "importar_datos", nombre |-> nombre,
                                      excepcion |-> "TypeError"]
                           /\ UNCHANGED registros
                 ELSE /\ ret' = [op |-> "importar_datos", nombre |-> nombre,
                                 msg |-> "No se pudieron importar los datos"]
                      /\ UNCHANGED <<estado, registros>>
    /\ UNCHANGED <<archivos, guardado, mongodb, coleccion, arg>>

GestorMongoDB == "GestorMongoDB"

\* a connection step that keeps a handle even when the client cannot be built
inicializar_mongodb_optimista(exito) ==
    [mongodb |-> GestorMongoDB, valor |-> exito]

\* exito: whether MongoClient(conexion_string) returns; when it raises the
\* assignment to self.mongodb does not happen
inicializar_mongodb(exito) ==
    [mongodb |-> IF exito THEN GestorMongoDB ELSE mongodb, valor |-> exito]

conectar_mongodb ==
    /\ estado = "menu"
    /\ \E exito \in BOOLEAN :
          LET r == inicializar_mongodb(exito)
          IN  /\ mongodb' = r.mongodb
              /\ ret' = [op |-> "conectar_mongodb", conectado |-> r.valor]
    /\ UNCHANGED <<estado, registros, archivos, guardado, coleccion, arg>>

\* disponible: whether the server answers during this invocation
ejecutar_consultas ==
    /\ estado = "menu"
    /\ IF mongodb = None
       THEN /\ ret' = [op |-> "ejecutar_consultas",
                       msg |-> "Primero debe conectar con MongoDB", llamadas |-> <<>>]
            /\ UNCHANGED <<archivos, coleccion>>
       ELSE /\ Len(coleccion) + Len(registros) <= MaxDocs
            /\ \E disponible \in BOOLEAN, abre \in BOOLEAN :
                 LET ins == IF Len(registros) > 0
                            THEN insertar_registros(
                                    coleccion,
                                    [i \in 1..Len(registros) |-> asdict(registros[i])],
                                    disponible)
                            ELSE [col |-> coleccion, llamadas |-> <<>>]
                     promedio == consultar_promedio_fc(ins.col, disponible)
                     spo2_bajos == consultar_spo2_bajo(ins.col, LimitePorDefecto, disponible)
                 IN  /\ coleccion' = ins.col
                     /\ archivos' = exportar_consultas_json(archivos, ins.col,
                                                            disponible, abre)
                     /\ ret' = [op |-> "ejecutar_consultas", promedio |-> promedio,
                                bajos |-> Len(spo2_bajos),
                                llamadas |-> ins.llamadas \o
                                    <<"aggregate", "aggregate", "aggregate", "aggregate">>]
    /\ UNCHANGED <<estado, registros, guardado, mongodb, arg>>

mostrar_registros ==
    /\ estado = "menu"
    /\ IF Len(registros) = 0
       THEN ret' = [op |-> "mostrar_registros", msg |-> "No hay registros para mostrar"]
       ELSE LET n == IF Len(registros) < LimiteMostrar THEN Len(registros) ELSE LimiteMostrar
            IN  ret' = [op |-> "mostrar_registros", total |-> Len(registros),
                        filas |-> [i \in 1..n |->
                                     [registro |-> registros[i],
                                      valido |-> validar_registro(registros[i])]]]
    /\ UNCHANGED <<sys, arg>>

salir ==
    /\ estado = "menu"
    /\ estado' = "salido"
    /\ ret' = [op |-> "salir"]
    /\ UNCHANGED <<registros, archivos, guardado, mongodb, coleccion, arg>>

Init ==
    /\ InitSys
    /\ arg = [entrada |-> <<>>]
    /\ ret = [op |-> "inicio"]

Next ==
    \/ generar_datos
    \/ validar_datos
    \/ ordenar_datos
    \/ exportar_datos
    \/ importar_datos
    \/ conectar_mongodb
    \/ ejecutar_consultas
    \/ mostrar_registros
    \/ salir

Spec == Init /\ [][Next]_vars
-----------------------------------------------------------------------------
(* guardar_json and cargar_json called on their own, and importar_datos *)

PoolCodec == {R1, R5}

SeqsCodec == UNION { [1..n -> PoolCodec] : n \in 0..MaxLen }

Call_guardar_json ==
    /\ \E regs \in SeqsCodec, abre \in BOOLEAN :
          /\ archivos' = guardar_json(archivos, regs, NombrePorDefecto, abre)
          /\ guardado' = anotar(guardado, regs, NombrePorDefecto, abre)
          /\ ret' = [op |-> "guardar_json", nombre |-> NombrePorDefecto, abre |-> abre]
    /\ UNCHANGED <<estado, registros, mongodb, coleccion, arg>>

Call_cargar_json ==
    /\ \E nombre \in EntradasImportar :
          ret' = [op |-> "cargar_json", nombre |-> nombre,
                  valor |-> cargar_json(archivos, nombre)]
    /\ UNCHANGED <<sys, arg>>

NextCodec ==
    \/ Call_guardar_json
    \/ Call_cargar_json
    \/ importar_datos

SpecCodec == Init /\ [][NextCodec]_vars

-----------------------------------------------------------------------------
(* GestorMongoDB called on its own, in a session that has connected *)

\* the three documents of the worked example, and two malformed ones
E1 == RegistroBiomedico(ID_ \o Format03d(1), Decimal(18) \o <<" ">> \o ANOS,
                        Decimal(60) \o PPM, Decimal(90) \o PCT)
E2 == RegistroBiomedico(ID_ \o Format03d(2), Decimal(18) \o <<" ">> \o ANOS,
                        Decimal(80) \o PPM, Decimal(94) \o PCT)
E3 == RegistroBiomedico(ID_ \o Format03d(3), Decimal(18) \o <<" ">> \o ANOS,
                        Decimal(100) \o PPM, Decimal(95) \o PCT)

PoolMongo == {E1, E2, E3, R5, R6}

SeqsMongo == UNION { [1..n -> PoolMongo] : n \in 0..MaxLen }

Limites == {LimitePorDefecto, LimitePorDefecto + 1}

InitMongo ==
    /\ estado = "menu"
    /\ registros = <<>>
    /\ archivos = ArchivosIniciales
    /\ guardado = [n \in Nombres |-> Nada]
    /\ mongodb = GestorMongoDB
    /\ coleccion = <<>>
    /\ arg = [entrada |-> <<>>]
    /\ ret = [op |-> "inicio"]

Call_insertar_registros ==
    /\ \E regs \in SeqsMongo, disponible \in BOOLEAN :
          LET ins == insertar_registros(coleccion,
                                        [i \in 1..Len(regs) |-> asdict(regs[i])],
                                        disponible)
          IN  /\ Len(coleccion) + Len(regs) <= MaxColeccion
              /\ coleccion' = ins.col
              /\ ret' = [op |-> "insertar_registros", disponible |-> disponible,
                         llamadas |-> ins.llamadas]
    /\ UNCHANGED <<estado, registros, archivos, guardado, mongodb, arg>>

Call_consultar_promedio_fc ==
    /\ \E disponible \in BOOLEAN :
          ret' = [op |-> "consultar_promedio_fc", disponible |-> disponible,
                  valor |-> consultar_promedio_fc(coleccion, disponible)]
    /\ UNCHANGED <<sys, arg>>

Call_consultar_spo2_bajo ==
    /\ \E limite \in Limites, disponible \in BOOLEAN :
          ret' = [op |-> "consultar_spo2_bajo", limite |-> limite,
                  disponible |-> disponible,
                  valor |-> consultar_spo2_bajo(coleccion, limite, disponible)]
    /\ UNCHANGED <<sys, arg>>

Call_exportar_consultas_json ==
    /\ \E disponible \in BOOLEAN, abre \in BOOLEAN :
          /\ archivos' = exportar_consultas_json(archivos, coleccion, disponible, abre)
          /\ ret' = [op |-> "exportar_consultas_json", disponible |-> disponible,
                     abre |-> abre]
    /\ UNCHANGED <<estado, registros, guardado, mongodb, coleccion, arg>>

NextMongo ==
    \/ Call_insertar_registros
    \/ Call_consultar_promedio_fc
    \/ Call_consultar_spo2_bajo
    \/ Call_exportar_consultas_json

SpecMongo == InitMongo /\ [][NextMongo]_vars

-----------------------------------------------------------------------------
(* Ordenador and the two handlers that rework the held records, on record *)
(* sets that an import can bring in *)

InitReg ==
    /\ estado = "menu"
    /\ registros \in SeqsReg
    /\ archivos = ArchivosIniciales
    /\ guardado = [n \in Nombres |-> Nada]
    /\ mongodb = None
    /\ coleccion = <<>>
    /\ arg = [registros |-> registros]
    /\ ret = [op |-> "inicio"]

Call_extraer_valor_fc ==
    /\ \E i \in 1..Len(arg.registros) :
          ret' = [op |-> "extraer_valor_fc", registro |-> arg.registros[i],
                  valor |-> extraer_valor_fc(arg.registros[i])]
    /\ UNCHANGED <<sys, arg>>

\* sorted() reads the list it is given and leaves it as it is
Call_ordenar_por_fc ==
    /\ ret' = [op |-> "ordenar_por_fc", valor |-> ordenar_por_fc(arg.registros)]
    /\ UNCHANGED <<sys, arg>>

NextReg ==
    \/ validar_datos
    \/ ordenar_datos
    \/ Call_extraer_valor_fc
    \/ Call_ordenar_por_fc

SpecReg == InitReg /\ [][NextReg]_vars
-----------------------------------------------------------------------------
(* Claims about GeneradorDatos *)

\* the number written after "ID-"
NumeroDeId(id) == int(SubSeq(id, 4, Len(id))).val

\* C1: for every n >= 1, generar_registros(n) returns exactly n records, the
\* i-th with the id ID-<i zero-padded to 3>, ids strictly increasing, and
\* every record satisfies validar_registro, whatever the draws.
C1_GeneradorValido ==
    (ret.op = "generar_registros" /\ ret.cantidad >= 1) =>
        /\ Len(ret.valor) = ret.cantidad
        /\ \A i \in 1..Len(ret.valor) :
              /\ StartsAt(ret.valor[i].id, 1, ID_)
              /\ NumeroDeId(ret.valor[i].id) = i
              /\ validar_registro(ret.valor[i])
        /\ \A i \in 1..(Len(ret.valor) - 1) :
              NumeroDeId(ret.valor[i].id) < NumeroDeId(ret.valor[i + 1].id)

-----------------------------------------------------------------------------
(* Claims about Validador *)

\* the four grammars, matched against the whole string
GramaticaId(s) == Len(s) = 6 /\ StartsAt(s, 1, ID_) /\ AllDigits(s, 4, 6)

GramaticaFr(s) ==
    \E k \in 1..3 :
        /\ k + 4 <= Len(s)
        /\ AllDigits(s, 1, k)
        /\ AllSpaces(s, k + 1, Len(s) - 4)
        /\ StartsAt(s, Len(s) - 3, ANOS)

GramaticaFc(s) ==
    \E k \in 2..3 : Len(s) = k + 3 /\ AllDigits(s, 1, k) /\ StartsAt(s, k + 1, PPM)

GramaticaSpo2(s) ==
    \E k \in 2..3 : Len(s) = k + 1 /\ AllDigits(s, 1, k) /\ StartsAt(s, k + 1, PCT)

\* C4: each field predicate accepts a string exactly when the whole string
\* matches its grammar, with no leading or trailing extra content, and
\* validar_registro is true exactly when all four field predicates are.
C4_ValidadorExacto ==
    /\ ret.op = "validar_id" => (ret.valor <=> GramaticaId(arg.registro.id))
    /\ ret.op = "validar_fr" => (ret.valor <=> GramaticaFr(arg.registro.fr))
    /\ ret.op = "validar_fc" => (ret.valor <=> GramaticaFc(arg.registro.fc))
    /\ ret.op = "validar_spo2" => (ret.valor <=> GramaticaSpo2(arg.registro.spo2))
    /\ ret.op = "validar_registro" =>
          (ret.valor <=> /\ GramaticaId(arg.registro.id)
                         /\ GramaticaFr(arg.registro.fr)
                         /\ GramaticaFc(arg.registro.fc)
                         /\ GramaticaSpo2(arg.registro.spo2))

-----------------------------------------------------------------------------
(* Claims about Ordenador and validar_datos *)

Clave(r) == extraer_valor_fc(r).val

\* y is x rearranged by p
Reordena(p, x, y) == \A i \in 1..Len(x) : y[i] = x[p[i]]

\* C3: ordenar_por_fc returns a permutation of its input, ascending by
\* decoded heart rate, records with equal decoded heart rate in their
\* original relative order; sorting the result again returns it unchanged;
\* and the call leaves the sequence it was given as it was.
C3_Resultado ==
    (ret.op = "ordenar_por_fc" /\ ret.valor.ok) =>
        LET x == arg.registros
            y == ret.valor.val
        IN  /\ Len(y) = Len(x)
            /\ \E p \in Permutations(1..Len(x)) :
                  /\ Reordena(p, x, y)
                  /\ \A i, j \in 1..Len(x) :
                        i < j => /\ Clave(y[i]) <= Clave(y[j])
                                 /\ Clave(y[i]) = Clave(y[j]) => p[i] < p[j]
            /\ ordenar_por_fc(y) = [ok |-> TRUE, val |-> y]

C3_OrdenEstable ==
    /\ []C3_Resultado
    /\ [][ret'.op = "ordenar_por_fc" => arg' = arg]_vars

\* a sort did return, on an input with two records of equal heart rate out of
\* order with a third
C3_Witness ==
    /\ ret.op = "ordenar_por_fc"
    /\ ret.valor.ok
    /\ ret.valor.val # arg.registros
    /\ \E i, j \in 1..Len(arg.registros) :
          /\ i < j
          /\ arg.registros[i] # arg.registros[j]
          /\ Clave(arg.registros[i]) = Clave(arg.registros[j])

\* the heart-rate grammar the decoder is specified for: digits, then ppm
DigitosPpm(s) ==
    /\ Len(s) >= 4
    /\ AllDigits(s, 1, Len(s) - 3)
    /\ StartsAt(s, Len(s) - 2, PPM)

\* C9: extraer_valor_fc fails for every record whose heart-rate string is not
\* digits followed by ppm; ordenar_por_fc then fails too, and ordenar_datos
\* lets the failure reach its caller with the held records unchanged.
C9_DecodificadorEstricto ==
    /\ (ret.op = "extraer_valor_fc" /\ ~DigitosPpm(ret.registro.fc)) => ~ret.valor.ok
    /\ (ret.op = "ordenar_por_fc"
          /\ \E i \in 1..Len(arg.registros) : ~DigitosPpm(arg.registros[i].fc))
        => ~ret.valor.ok
    /\ (ret.op = "ordenar_datos"
          /\ \E i \in 1..Len(registros) : ~DigitosPpm(registros[i].fc))
        => estado = "error"

\* the valid records of s, in the order of s: the k-th is the record at the
\* k-th smallest index holding a valid record
IndicesValidos(s) == { i \in 1..Len(s) : validar_registro(s[i]) }

SubsecuenciaValida(s) ==
    [k \in 1..Cardinality(IndicesValidos(s)) |->
        s[CHOOSE i \in IndicesValidos(s) :
              Cardinality({ j \in IndicesValidos(s) : j <= i }) = k]]

\* C5: a step of validar_datos on a non-empty record set leaves exactly the
\* valid records of the set, unaltered and in their original order, and
\* reports as invalid the number of records removed.
C5_ParticionEstable ==
    [][(ret'.op = "validar_datos" /\ Len(registros) > 0) =>
          /\ registros' = SubsecuenciaValida(registros)
          /\ ret'.validos = Len(registros')
          /\ ret'.invalidos = Len(registros) - Len(registros')]_vars

\* ten records with three corrupted ones were partitioned 7 / 3
C5_Witness ==
    /\ ret.op = "validar_datos"
    /\ "validos" \in DOMAIN ret
    /\ ret.validos = 7
    /\ ret.invalidos = 3
    /\ registros = SubsecuenciaValida(Ejemplo10)
    /\ Len(registros) = 7
-----------------------------------------------------------------------------
(* Claims about guardar_json, cargar_json and importar_datos *)

\* a successful guardar_json wrote the file named n
Escrito(n) == n \in Nombres /\ guardado[n].hay

\* a parsed JSON object carries the four fields of r and nothing else
MismosCampos(d, r) ==
    /\ DOMAIN d = {"id", "fr", "fc", "spo2"}
    /\ d["id"] = r.id
    /\ d["fr"] = r.fr
    /\ d["fc"] = r.fc
    /\ d["spo2"] = r.spo2

\* C2, as stated: for any record sequence x, the empty one included, an
\* import of the file guardar_json wrote from x leaves the held record set
\* equal to x.
C2_IdaYVueltaTotal ==
    (ret.op = "importar_datos" /\ Escrito(ret.nombre)) =>
        registros = guardado[ret.nombre].regs

\* cargar_json returns the objects guardar_json wrote, field for field and in
\* order, the empty list included
C2_Leido ==
    (ret.op = "cargar_json" /\ Escrito(ret.nombre)) =>
        LET x == guardado[ret.nombre].regs
        IN  /\ Len(ret.valor) = Len(x)
            /\ \A i \in 1..Len(x) : MismosCampos(ret.valor[i], x[i])

\* importar_datos of a file written from a non-empty x holds x afterwards;
\* of a file written from the empty sequence it reports a failure
C2_Importado ==
    (ret.op = "importar_datos" /\ Escrito(ret.nombre)) =>
        LET x == guardado[ret.nombre].regs
        IN  IF Len(x) > 0
            THEN /\ "importados" \in DOMAIN ret
                 /\ ret.importados = Len(x)
                 /\ registros = x
                 /\ estado = "menu"
            ELSE /\ "msg" \in DOMAIN ret
                 /\ ret.msg = "No se pudieron importar los datos"

\* C2, amended: cargar_json returns what guardar_json wrote for every record
\* sequence x; importar_datos then holds x, field for field and in order,
\* when x is not empty, and when x is empty it reports a failure and leaves
\* the held record set as it was.
C2_IdaYVuelta ==
    /\ [](C2_Leido /\ C2_Importado)
    /\ [][(/\ ret'.op = "importar_datos"
           /\ Escrito(ret'.nombre)
           /\ guardado[ret'.nombre].regs = <<>>) => registros' = registros]_vars

\* an import brought back a written sequence of two different records
C2_Witness ==
    /\ ret.op = "importar_datos"
    /\ Escrito(ret.nombre)
    /\ Len(guardado[ret.nombre].regs) >= 2
    /\ guardado[ret.nombre].regs[1] # guardado[ret.nombre].regs[2]
    /\ registros = guardado[ret.nombre].regs

-----------------------------------------------------------------------------
(* Claims about GestorMongoDB *)

\* the oxygen grammar the decoder is specified for: digits, then %
DigitosPct(s) ==
    /\ Len(s) >= 2
    /\ AllDigits(s, 1, Len(s) - 1)
    /\ StartsAt(s, Len(s), PCT)

\* the decoded measurements of a stored document
FcDecodificada(doc) == DigitsValue(Campo(doc, "fc"), 1, Len(Campo(doc, "fc")) - 3, 0)

Spo2Decodificada(doc) == DigitsValue(Campo(doc, "spo2"), 1, Len(Campo(doc, "spo2")) - 1, 0)

\* every document of the collection carries measurements that decode
Decodificable(col) ==
    \A i \in 1..Len(col) :
        /\ DigitosPpm(Campo(col[i], "fc"))
        /\ DigitosPct(Campo(col[i], "spo2"))

\* C6: consultar_promedio_fc returns the mean of the decoded heart rates (the
\* fc string with its ppm suffix removed) over all documents of the
\* collection, and 0 when the collection is empty or the query fails: the
\* server does not answer, or a heart rate does not decode.
C6_PromedioDecodificado ==
    ret.op = "consultar_promedio_fc" =>
        IF /\ ret.disponible
           /\ Len(coleccion) > 0
           /\ \A i \in 1..Len(coleccion) : DigitosPpm(Campo(coleccion[i], "fc"))
        THEN ret.valor.num * Len(coleccion) =
                ret.valor.den *
                    Suma([i \in 1..Len(coleccion) |-> FcDecodificada(coleccion[i])],
                         Len(coleccion))
        ELSE ret.valor = [num |-> 0, den |-> 1]

\* C7: when the server answers, consultar_spo2_bajo(limite) returns exactly
\* the stored documents whose oxygen saturation decodes to an integer below
\* limite, in stored order and without the helper field spo2_valor.
C7_Spo2BajoExacto ==
    (ret.op = "consultar_spo2_bajo" /\ ret.disponible) =>
        LET Bajo(doc) == /\ DigitosPct(Campo(doc, "spo2"))
                         /\ Spo2Decodificada(doc) < ret.limite
        IN  /\ ret.valor = SelectSeq(coleccion, Bajo)
            /\ \A i \in 1..Len(ret.valor) :
                  \A j \in 1..Len(ret.valor[i]) : ret.valor[i][j].k # "spo2_valor"

\* the fields of the record a stored document was inserted from
SinId(doc) == SelectSeq(doc, LAMBDA m : m.k # "_id")

\* C8: on a store of well-formed record documents, with the server answering
\* and the file writable, exportar_consultas_json leaves
\* json/resultados.mongo.json a complete object with exactly the keys
\* promedio_fc, the mean heart rate, and spo2_bajo_94, the records of schema
\* id/fr/fc/spo2 with oxygen saturation below 94.
C8_ArchivoCompleto ==
    (/\ ret.op = "exportar_consultas_json"
     /\ ret.disponible
     /\ ret.abre
     /\ Len(coleccion) > 0
     /\ Decodificable(coleccion)) =>
        LET f == archivos[RutaConsultas]
            Bajo(doc) == Spo2Decodificada(doc) < LimitePorDefecto
            bajos == SelectSeq(coleccion, Bajo)
        IN  /\ f.existe
            /\ f.completo
            /\ Len(f.json.v) = 2
            /\ f.json.v[1].k = "promedio_fc"
            /\ f.json.v[1].v.v.num * Len(coleccion) =
                  f.json.v[1].v.v.den *
                      Suma([i \in 1..Len(coleccion) |-> FcDecodificada(coleccion[i])],
                           Len(coleccion))
            /\ f.json.v[2].k = "spo2_bajo_94"
            /\ f.json.v[2].v = JArr([i \in 1..Len(bajos) |-> JObj(SinId(bajos[i]))])
-----------------------------------------------------------------------------
(* Claims about the connection and ejecutar_consultas *)

\* the bulk inserts among the calls made to the store
Inserciones(llamadas) ==
    Cardinality({ i \in 1..Len(llamadas) : llamadas[i] = "insert_many" })

\* C10, as stated: in every sequence of menu operations the store handle is
\* unset after a failed connection attempt.
C10_FalloSinManejador ==
    (ret.op = "conectar_mongodb" /\ ~ret.conectado) => mongodb = None

\* one step of the menu
C10_Paso ==
    \* a failed attempt changes neither the handle, nor the held records,
    \* nor the files, nor the collection, and the menu goes on
    /\ (ret'.op = "conectar_mongodb" /\ ~ret'.conectado) =>
          /\ mongodb' = mongodb
          /\ registros' = registros
          /\ archivos' = archivos
          /\ coleccion' = coleccion
          /\ estado' = estado
    \* only an attempt that succeeds sets the handle
    /\ (mongodb = None /\ mongodb' # None) =>
          (ret'.op = "conectar_mongodb" /\ ret'.conectado)
    \* without a handle ejecutar_consultas inserts, queries and exports nothing
    /\ (ret'.op = "ejecutar_consultas" /\ mongodb = None) =>
          /\ ret'.llamadas = <<>>
          /\ coleccion' = coleccion
          /\ archivos' = archivos
    \* with one, it issues at most one bulk insert, none for no records
    /\ (ret'.op = "ejecutar_consultas" /\ mongodb # None) =>
          /\ Inserciones(ret'.llamadas) <= 1
          /\ registros = <<>> => (Inserciones(ret'.llamadas) = 0 /\ coleccion' = coleccion)

\* after a failed attempt that leaves the session without a handle the other
\* operations of the menu can still be chosen
C10_Funciona ==
    (ret.op = "conectar_mongodb" /\ ~ret.conectado /\ mongodb = None) =>
        /\ ENABLED generar_datos
        /\ ENABLED validar_datos
        /\ ENABLED ordenar_datos
        /\ ENABLED exportar_datos
        /\ ENABLED importar_datos

\* C10, amended: a failed connection attempt leaves the store handle as it
\* was (unset while no connection has succeeded, still set after an earlier
\* success) and changes neither the held records nor the files; the handle
\* is set only by an attempt that succeeds; while it is unset
\* ejecutar_consultas performs no insert, query or export, and generate,
\* validate, sort, file export and file import stay available; once it is
\* set, ejecutar_consultas issues at most one bulk insert per invocation and
\* none when the record set is empty.
C10_SinConexion ==
    /\ [][C10_Paso]_vars
    /\ []C10_Funciona

\* a connection attempt failed in a session that holds records and has no
\* handle
C10_Witness ==
    /\ ret.op = "conectar_mongodb"
    /\ ~ret.conectado
    /\ mongodb = None
    /\ Len(registros) > 0
=============================================================================
